---- MODULE Spec2Model ----
(***************************************************************************)
(* Model of src/app.py, the Karachi AQI dashboard: the forecast loader and *)
(* its 60 s cache, the time normaliser and the Pakistan-time picker.       *)
(*                                                                         *)
(* Instants are whole minutes since the model's epoch, a UTC midnight      *)
(* later than 2009-11-01, from when Asia/Karachi is UTC+05:00 with no      *)
(* further transitions.  An ISO-8601 string is the record                  *)
(*   [wall |-> minutes its date and time fields read, tz |-> its suffix]   *)
(* with suffix "" (none), "Z" or "+05:00".  The wall-clock time of the     *)
(* cache is counted in seconds.                                            *)
(***************************************************************************)
EXTENDS Integers, Sequences, FiniteSets, TLC

VARIABLES
    store,        \* the documents of the forecast collection
    now,          \* wall clock of the process, in seconds
    cache,        \* st.cache_data entries of load_latest_forecast, by city
    city,         \* sidebar text input of the last run
    load_obs,     \* what the last run's load met: button, entry, staleness
    base_time,    \* main(): base_time of the last run
    rows,         \* main(): rows of the last run
    shown,        \* the elements the last run rendered
    worst,        \* metric c3 of tab 1
    min_dt_utc, max_dt_utc, min_dt_pk, max_dt_pk,
    picked_date, picked_hour, picked_utc, picked_pk,
    match         \* the rows of df equal to picked_utc, in df order

vars == <<store, now, cache, city, load_obs, base_time, rows, shown, worst,
          min_dt_utc, max_dt_utc, min_dt_pk, max_dt_pk,
          picked_date, picked_hour, picked_utc, picked_pk, match>>

----------------------------------------------------------------------------
(* Bounds of the model *)

MaxBatches == 2
MaxClock == 90

(* Constants of the program *)

TTL == 60
PKOffsetMinutes == 300
WindowFirstHour == 1
WindowLastHour == 72
ForecastHours == 72

MinutesPerHour == 60
MinutesPerDay == 1440

Cities == {"Karachi", "Lahore"}

----------------------------------------------------------------------------
(* Time normaliser *)

\* UTC offset, in minutes, that an ISO suffix states.
SuffixOffset(tz) == IF tz = "+05:00" THEN 300 ELSE 0

\* to_dt_utc: isoparse, UTC assumed without a suffix, then astimezone(UTC).
to_dt_utc(iso_str) ==
    IF iso_str.tz = ""
    THEN iso_str.wall
    ELSE iso_str.wall - SuffixOffset(iso_str.tz)

\* astimezone(PK_TZ) with the date taken before the offset is added.
astimezone_PK_utc_date(t) ==
    LET l == t + PKOffsetMinutes
    IN  [date   |-> t \div MinutesPerDay,
         hour   |-> (l % MinutesPerDay) \div MinutesPerHour,
         minute |-> l % MinutesPerHour]

\* instant.astimezone(PK_TZ): the civil date, hour and minute in Pakistan.
astimezone_PK(t) ==
    LET l == t + PKOffsetMinutes
    IN  [date   |-> l \div MinutesPerDay,
         hour   |-> (l % MinutesPerDay) \div MinutesPerHour,
         minute |-> l % MinutesPerHour]

\* astimezone(UTC) with the offset applied the wrong way round.
astimezone_UTC_added(local) ==
    local.date * MinutesPerDay + local.hour * MinutesPerHour + local.minute
        + PKOffsetMinutes

\* local.astimezone(UTC) of a datetime built with tzinfo=PK_TZ.
astimezone_UTC(local) ==
    local.date * MinutesPerDay + local.hour * MinutesPerHour + local.minute
        - PKOffsetMinutes

\* datetime(date.year, date.month, date.day, hour, 0, 0, tzinfo=PK_TZ)
PickedLocal(d, h) == [date |-> d, hour |-> h, minute |-> 0]

NoLocal == [date |-> -1, hour |-> -1, minute |-> -1]
NoTime == -1
NoneStr == [wall |-> -1, tz |-> "None"]

----------------------------------------------------------------------------
(* The forecast collection and its producer *)

EpaCategory(aqi) ==
    IF aqi <= 50 THEN "Good"
    ELSE IF aqi <= 100 THEN "Moderate"
    ELSE IF aqi <= 150 THEN "Unhealthy for Sensitive Groups"
    ELSE IF aqi <= 200 THEN "Unhealthy"
    ELSE IF aqi <= 300 THEN "Very Unhealthy"
    ELSE "Hazardous"

\* predicted_aqi_us of horizon h under a profile.
ProfileAqi(profile, h) ==
    IF profile = "peak"
    THEN (IF h <= 30 THEN 140 + 2 * h ELSE 260 - 2 * h)
    ELSE (IF h \in {5, 40} THEN 210 ELSE 95)

\* The horizons a batch of a shape holds.
ShapeHorizons(shape) ==
    IF shape = "short" THEN 1..24 ELSE 1..ForecastHours

\* The instant of row h: base + h hours, but shape "dup" repeats the
\* instant of row 2 in row 3.
ShapeTarget(shape, base, h) ==
    IF shape = "dup" /\ h = 3
    THEN base + 2 * MinutesPerHour
    ELSE base + h * MinutesPerHour

\* An instant written as an ISO string with suffix tz.
IsoOf(t, tz) == [wall |-> t + SuffixOffset(tz), tz |-> tz]

\* The batches the producer may write.
BatchMenu ==
    { [city |-> "Karachi", base |-> 540,  tz |-> "Z", fmt |-> "Z",
       shape |-> "full", profile |-> "peak"],
      [city |-> "Karachi", base |-> 1200, tz |-> "Z", fmt |-> "+05:00",
       shape |-> "full", profile |-> "tie"],
      [city |-> "Karachi", base |-> 570,  tz |-> "Z", fmt |-> "Z",
       shape |-> "full", profile |-> "tie"],
      [city |-> "Karachi", base |-> 600,  tz |-> "",  fmt |-> "",
       shape |-> "dup", profile |-> "peak"],
      [city |-> "Karachi", base |-> 660,  tz |-> "Z", fmt |-> "Z",
       shape |-> "short", profile |-> "peak"],
      [city |-> "Lahore",  base |-> 540,  tz |-> "Z", fmt |-> "Z",
       shape |-> "full", profile |-> "peak"] }

\* The documents of one batch.
BatchDocs(b) ==
    { [city |-> b.city,
       base_time |-> IsoOf(b.base, b.tz),
       horizon_hours |-> h,
       target_time |-> IsoOf(ShapeTarget(b.shape, b.base, h), b.fmt),
       predicted_aqi_us |-> ProfileAqi(b.profile, h),
       category |-> EpaCategory(ProfileAqi(b.profile, h))]
      : h \in ShapeHorizons(b.shape) }

BatchKeys(docs) == { <<d.city, d.base_time>> : d \in docs }

----------------------------------------------------------------------------
(* Forecast loader *)

\* Order of the suffixes as strings: "" < "+05:00" < "Z".
SuffixRank(tz) == IF tz = "" THEN 0 ELSE IF tz = "+05:00" THEN 1 ELSE 2

\* a < b for ISO strings of one layout, compared as strings.
StrLess(a, b) ==
    \/ a.wall < b.wall
    \/ a.wall = b.wall /\ SuffixRank(a.tz) < SuffixRank(b.tz)

\* find_one with the sort ASCENDING instead of DESCENDING.
find_one_oldest(col, c) ==
    LET mine == { d \in col : d.city = c }
        keys == { d.base_time : d \in mine }
        low  == CHOOSE k \in keys : \A e \in keys : ~StrLess(e, k)
    IN  IF mine = {} THEN {}
        ELSE { CHOOSE d \in mine : d.base_time = low }

\* col.find_one({"city": city}, sort=[("base_time", DESCENDING)])
find_one_latest(col, c) ==
    LET mine == { d \in col : d.city = c }
        keys == { d.base_time : d \in mine }
        top  == CHOOSE k \in keys : \A e \in keys : ~StrLess(k, e)
    IN  IF mine = {} THEN {}
        ELSE { CHOOSE d \in mine : d.base_time = top }

\* A set of documents as a sequence, by ascending horizon_hours.
RECURSIVE SortAscending(_)
SortAscending(S) ==
    IF S = {} THEN <<>>
    ELSE LET hs == { d.horizon_hours : d \in S }
             lo == CHOOSE h \in hs : \A g \in hs : h <= g
             d  == CHOOSE e \in S : e.horizon_hours = lo
         IN  <<d>> \o SortAscending(S \ {d})

\* col.find({"city": city, "base_time": base_time}, sort=[("horizon_hours", ASCENDING)])
find_batch(col, c, bt) ==
    SortAscending({ d \in col : d.city = c /\ d.base_time = bt })

\* load_latest_forecast with the city left out of both queries.
load_latest_any_city(col, c) ==
    LET keys == { d.base_time : d \in col }
        top  == CHOOSE k \in keys : \A e \in keys : ~StrLess(k, e)
    IN  IF col = {}
        THEN [base_time |-> NoneStr, rows |-> <<>>]
        ELSE [base_time |-> top,
              rows |-> SortAscending({ d \in col : d.base_time = top })]

\* The body of load_latest_forecast.
load_latest_forecast(col, c) ==
    LET latest == find_one_latest(col, c)
    IN  IF latest = {}
        THEN [base_time |-> NoneStr, rows |-> <<>>]
        ELSE LET bt == (CHOOSE d \in latest : TRUE).base_time
             IN  [base_time |-> bt, rows |-> find_batch(col, c, bt)]

----------------------------------------------------------------------------
(* st.cache_data(ttl=60) *)

NoEntry == [stored_at |-> -1, value |-> [base_time |-> NoneStr, rows |-> <<>>]]

\* An entry is served while less than ttl seconds old.
cache_live(entries, c, t) ==
    /\ entries[c].stored_at >= 0
    /\ t < entries[c].stored_at + TTL

\* clear() that drops nothing.
cache_clear_nothing(entries) == entries

\* load_latest_forecast.clear(): every entry of the function.
cache_clear(entries) == [c \in DOMAIN entries |-> NoEntry]

----------------------------------------------------------------------------
(* main(): the frame, the metrics and the picker *)

\* idxmax that keeps the last position of the maximum.
idxmax_last(df) ==
    CHOOSE i \in 1..Len(df) :
        /\ \A j \in 1..Len(df) : df[j].predicted_aqi_us <= df[i].predicted_aqi_us
        /\ \A j \in (i + 1)..Len(df) : df[j].predicted_aqi_us < df[i].predicted_aqi_us

\* df["predicted_aqi_us"].idxmax(): the first position of the maximum.
idxmax(df) ==
    CHOOSE i \in 1..Len(df) :
        /\ \A j \in 1..Len(df) : df[j].predicted_aqi_us <= df[i].predicted_aqi_us
        /\ \A j \in 1..(i - 1) : df[j].predicted_aqi_us < df[i].predicted_aqi_us

NoMetric == [value |-> -1, horizon_hours |-> 0, category |-> ""]

\* c3.metric("Worst AQI (Next 72h)", ...)
worst_metric(df) ==
    LET w == df[idxmax(df)]
    IN  [value |-> w.predicted_aqi_us,
         horizon_hours |-> w.horizon_hours,
         category |-> w.category]

\* Lower and upper end of the allowed window.
window_min(base_dt_utc) == base_dt_utc + WindowFirstHour * MinutesPerHour

\* The upper end counted from the lower end instead of from base_time.
window_max_from_min(base_dt_utc) ==
    window_min(base_dt_utc) + WindowLastHour * MinutesPerHour

window_max(base_dt_utc) == base_dt_utc + WindowLastHour * MinutesPerHour

\* Guardrails with the second test missing.
clamp_lower_only(t, lo, hi) == IF t < lo THEN lo ELSE t

\* No guardrails.
clamp_none(t, lo, hi) == t

\* The guardrails: clamp the picked instant into the window.
clamp(t, lo, hi) ==
    LET t1 == IF t < lo THEN lo ELSE t
    IN  IF t1 > hi THEN hi ELSE t1

\* Lookup by the hour that contains the instant instead of by equality.
exact_match_same_hour(df, t) ==
    SelectSeq(df, LAMBDA r : to_dt_utc(r.target_time) \div MinutesPerHour
                                 = t \div MinutesPerHour)

\* df[df["target_dt_utc"] == picked_utc]
exact_match(df, t) == SelectSeq(df, LAMBDA r : to_dt_utc(r.target_time) = t)

----------------------------------------------------------------------------
(* Initial state and actions *)

\* The process before its first run: nothing cached, nothing rendered.
Started ==
    /\ now = 0
    /\ cache = [c \in Cities |-> NoEntry]
    /\ city = "Karachi"
    /\ load_obs = [refresh |-> FALSE, entry |-> "none", stale |-> FALSE]
    /\ base_time = NoneStr
    /\ rows = <<>>
    /\ shown = {}
    /\ worst = NoMetric
    /\ min_dt_utc = NoTime /\ max_dt_utc = NoTime
    /\ min_dt_pk = NoLocal /\ max_dt_pk = NoLocal
    /\ picked_date = -1 /\ picked_hour = -1
    /\ picked_utc = NoTime /\ picked_pk = NoLocal
    /\ match = <<>>

Init == store = {} /\ Started

\* The producer writes one more batch into the collection.
InsertBatch ==
    \E b \in BatchMenu :
        /\ Cardinality(BatchKeys(store)) < MaxBatches
        /\ <<b.city, IsoOf(b.base, b.tz)>> \notin BatchKeys(store)
        /\ store' = store \cup BatchDocs(b)
        /\ UNCHANGED <<now, cache, city, load_obs, base_time, rows, shown, worst,
                       min_dt_utc, max_dt_utc, min_dt_pk, max_dt_pk,
                       picked_date, picked_hour, picked_utc, picked_pk, match>>

\* Thirty seconds pass.
Tick ==
    /\ now + 30 <= MaxClock
    /\ now' = now + 30
    /\ UNCHANGED <<store, cache, city, load_obs, base_time, rows, shown, worst,
                   min_dt_utc, max_dt_utc, min_dt_pk, max_dt_pk,
                   picked_date, picked_hour, picked_utc, picked_pk, match>>

\* The dates and hours the two picker widgets can hand to a run: any date
\* from min_dt_pk.date() to max_dt_pk.date() with any hour of the day, or,
\* while the user leaves them alone, their initial values.
picker_inputs(lo_pk, hi_pk, touched) ==
    IF touched
    THEN (lo_pk.date .. hi_pk.date) \X (0..23)
    ELSE {<<lo_pk.date, lo_pk.hour>>}

\* One run of main(): the sidebar, the load through the cache, tab 1, tab 2.
Run(c, clicked, touched) ==
    \E cleared \in {IF clicked THEN cache_clear(cache) ELSE cache} :
    \E got \in {IF cache_live(cleared, c, now) THEN cleared[c].value
                ELSE load_latest_forecast(store, c)} :
    \E lo \in {window_min(to_dt_utc(got.base_time))},
       hi \in {window_max(to_dt_utc(got.base_time))} :
        /\ city' = c
        /\ cache' = IF cache_live(cleared, c, now) THEN cleared
                    ELSE [cleared EXCEPT ![c] = [stored_at |-> now, value |-> got]]
        /\ load_obs' = [refresh |-> clicked,
                        entry |-> IF cache[c].stored_at < 0 THEN "none"
                                  ELSE IF cache_live(cache, c, now) THEN "live"
                                  ELSE "expired",
                        stale |-> /\ cache[c].stored_at >= 0
                                  /\ \E d \in find_one_latest(store, c) :
                                        d.base_time # cache[c].value.base_time]
        /\ base_time' = got.base_time
        /\ rows' = got.rows
        /\ UNCHANGED <<store, now>>
        /\ IF got.rows = <<>>
           THEN /\ shown' = {"warning"}
                /\ worst' = NoMetric
                /\ min_dt_utc' = NoTime /\ max_dt_utc' = NoTime
                /\ min_dt_pk' = NoLocal /\ max_dt_pk' = NoLocal
                /\ picked_date' = -1 /\ picked_hour' = -1
                /\ picked_utc' = NoTime /\ picked_pk' = NoLocal
                /\ match' = <<>>
           ELSE /\ worst' = worst_metric(got.rows)
                /\ min_dt_utc' = lo /\ max_dt_utc' = hi
                /\ min_dt_pk' = astimezone_PK(lo)
                /\ max_dt_pk' = astimezone_PK(hi)
                /\ \E p \in picker_inputs(astimezone_PK(lo), astimezone_PK(hi), touched) :
                      LET d == p[1]
                          h == p[2]
                          t == clamp(astimezone_UTC(PickedLocal(d, h)), lo, hi)
                          m == exact_match(got.rows, t)
                      IN  /\ picked_date' = d /\ picked_hour' = h
                          /\ picked_utc' = t
                          /\ picked_pk' = IF t = astimezone_UTC(PickedLocal(d, h))
                                          THEN PickedLocal(d, h)
                                          ELSE astimezone_PK(t)
                          /\ match' = m
                          /\ shown' = {"caption", "metrics", "charts", "table",
                                       "download", "window", "picker"}
                                      \cup (IF m = <<>> THEN {"no_exact_match"}
                                            ELSE {"result"})

\* A run in which the user has set the sidebar only.
Main == \E c \in Cities, clicked \in BOOLEAN : Run(c, clicked, FALSE)

\* A run in which the user has chosen a date and an hour in tab 2.
MainPick == \E c \in Cities : Run(c, FALSE, TRUE)

Next == InsertBatch \/ Tick \/ Main

Spec == Init /\ [][Next]_vars

\* The picker on its own: the collection holds one batch of the menu, and
\* the user picks dates and hours without pressing the refresh button.
PickerInit ==
    /\ \E b \in BatchMenu : store = BatchDocs(b)
    /\ Started

PickerNext == MainPick

PickerSpec == PickerInit /\ [][PickerNext]_vars

----------------------------------------------------------------------------
(* Properties *)

\* The last run rendered the two tabs.
Rendered == "picker" \in shown

\* The instant the picked date and hour name, before the guardrails.
Candidate == picked_date * 1440 + picked_hour * 60 - 300

\* The loaded batch has the shape the data model gives a batch: one row per
\* horizon 1..72, row h holding the instant base_time + h hours.
DataModelOK ==
    /\ Len(rows) = 72
    /\ \A i \in 1..Len(rows) :
          /\ rows[i].horizon_hours = i
          /\ to_dt_utc(rows[i].target_time) = to_dt_utc(base_time) + 60 * i

\* The documents of a city.
DocsOf(c) == { d \in store : d.city = c }

\* C1: a candidate earlier than base_time + 1 h is replaced by that bound
\* and, in a batch of the data model, resolves to exactly the horizon-1 row;
\* one later than base_time + 72 h is replaced by that bound and resolves to
\* exactly the horizon-72 row; a candidate inside the window is used as is.
C1_Clamping ==
    Rendered =>
        LET lower == to_dt_utc(base_time) + 60
            upper == to_dt_utc(base_time) + 72 * 60
        IN  /\ (Candidate < lower) =>
                  (picked_utc = lower /\ (DataModelOK => match = <<rows[1]>>))
            /\ (Candidate > upper) =>
                  (picked_utc = upper /\ (DataModelOK => match = <<rows[72]>>))
            /\ (Candidate >= lower /\ Candidate <= upper) =>
                  picked_utc = Candidate

C1_Witness ==
    /\ Rendered /\ DataModelOK
    /\ Candidate < to_dt_utc(base_time) + 60
    /\ picked_utc # Candidate
    /\ match = <<rows[1]>>

\* C2 as stated: in a batch of the data model, picking the Pakistan date and
\* hour of any row's target_time returns that row.
C2_ExactMatchAnyRow ==
    (Rendered /\ DataModelOK) =>
        \A i \in 1..Len(rows) :
            LET l == astimezone_PK(to_dt_utc(rows[i].target_time))
            IN  (picked_date = l.date /\ picked_hour = l.hour) =>
                    (match # <<>> /\ match[1] = rows[i])

\* C2, amended: in a batch of the data model, picking the Pakistan date and
\* hour of a row whose target_time lies on a whole hour returns that row.
C2_ExactMatchWholeHour ==
    (Rendered /\ DataModelOK) =>
        \A i \in 1..Len(rows) :
            LET l == astimezone_PK(to_dt_utc(rows[i].target_time))
            IN  (l.minute = 0 /\ picked_date = l.date /\ picked_hour = l.hour) =>
                    (match # <<>> /\ match[1] = rows[i])

C2_Witness ==
    /\ Rendered /\ DataModelOK
    /\ \E i \in 2..71 :
          LET l == astimezone_PK(to_dt_utc(rows[i].target_time))
          IN  /\ l.minute = 0 /\ picked_date = l.date /\ picked_hour = l.hour
              /\ rows[i].target_time.tz = "+05:00"
              /\ match = <<rows[i]>>

\* C3: the lookup is by equality of instants alone.  With no equal row the
\* run shows the inline message and everything else it shows otherwise; with
\* equal rows it shows the result, which is the first of them in ascending
\* horizon order, however many there are.
C3_LookupPolicy ==
    Rendered =>
        LET eq == { i \in 1..Len(rows) : to_dt_utc(rows[i].target_time) = picked_utc }
        IN  /\ {"caption", "metrics", "charts", "table", "download", "window"}
                  \subseteq shown
            /\ Len(match) = Cardinality(eq)
            /\ eq = {} => ("no_exact_match" \in shown /\ "result" \notin shown)
            /\ eq # {} =>
                  /\ "result" \in shown /\ "no_exact_match" \notin shown
                  /\ \E i \in eq : /\ match[1] = rows[i]
                                   /\ \A j \in eq : rows[i].horizon_hours
                                                       <= rows[j].horizon_hours

C3_Witness ==
    /\ Rendered
    /\ Len(match) >= 2
    /\ match[1].horizon_hours < match[2].horizon_hours
    /\ "result" \in shown

\* C4 as stated: for a batch covering horizons 1..72 hourly from its
\* base_time, no input of the picker ends in NoExactMatch.
C4_NeverNoExactMatch ==
    (Rendered /\ DataModelOK) => (match # <<>> /\ "no_exact_match" \notin shown)

\* C4, amended: the same for a batch whose base_time lies on a whole hour.
C4_NeverNoExactMatchWholeHour ==
    (Rendered /\ DataModelOK /\ to_dt_utc(base_time) % 60 = 0) =>
        (match # <<>> /\ "no_exact_match" \notin shown)

C4_Witness ==
    /\ Rendered /\ DataModelOK
    /\ to_dt_utc(base_time) % 60 = 0
    /\ picked_utc = Candidate
    /\ picked_date > min_dt_pk.date
    /\ "result" \in shown

\* C5: the window of a run is [base_time + 1 h, base_time + 72 h] of the
\* base_time that run loaded, and its two ends in Pakistan time are the
\* same instants read on a clock five hours ahead.
C5_Window ==
    Rendered =>
        /\ min_dt_utc = to_dt_utc(base_time) + 60
        /\ max_dt_utc = to_dt_utc(base_time) + 72 * 60
        /\ min_dt_pk.hour \in 0..23 /\ min_dt_pk.minute \in 0..59
        /\ max_dt_pk.hour \in 0..23 /\ max_dt_pk.minute \in 0..59
        /\ min_dt_pk.date * 1440 + min_dt_pk.hour * 60 + min_dt_pk.minute
              = min_dt_utc + 300
        /\ max_dt_pk.date * 1440 + max_dt_pk.hour * 60 + max_dt_pk.minute
              = max_dt_utc + 300

C5_Witness ==
    /\ Rendered
    /\ load_obs.refresh /\ load_obs.stale
    /\ min_dt_pk.date > min_dt_utc \div 1440
    /\ max_dt_utc - min_dt_utc = 71 * 60

\* C6: for a city with documents, the loader returns the latest base_time
\* among them and, as rows, all and only the documents of that city and
\* base_time, by ascending horizon_hours.
C6_LoaderLatest ==
    \A c \in Cities :
        DocsOf(c) # {} =>
            LET r == load_latest_forecast(store, c)
                batch == { d \in DocsOf(c) : d.base_time = r.base_time }
            IN  /\ \E d \in DocsOf(c) : d.base_time = r.base_time
                /\ \A d \in DocsOf(c) :
                      to_dt_utc(d.base_time) <= to_dt_utc(r.base_time)
                /\ { r.rows[i] : i \in 1..Len(r.rows) } = batch
                /\ Len(r.rows) = Cardinality(batch)
                /\ \A i \in 1..Len(r.rows) : \A j \in (i + 1)..Len(r.rows) :
                      r.rows[i].horizon_hours < r.rows[j].horizon_hours

C6_Witness ==
    /\ Cardinality({ d.base_time : d \in DocsOf(city) }) = 2
    /\ load_obs.refresh /\ load_obs.stale
    /\ rows = load_latest_forecast(store, city).rows
    /\ Len(rows) = 24

\* C7: for a city without documents the loader returns the empty result,
\* and a run for such a city shows the warning and nothing else.
C7_NotFound ==
    /\ \A c \in Cities :
          DocsOf(c) = {} =>
              load_latest_forecast(store, c) = [base_time |-> NoneStr, rows |-> <<>>]
    /\ (shown # {} /\ DocsOf(city) = {}) =>
          /\ shown = {"warning"}
          /\ base_time = NoneStr /\ rows = <<>>
          /\ worst = NoMetric /\ match = <<>>
          /\ min_dt_utc = NoTime /\ picked_utc = NoTime

C7_Witness ==
    /\ city = "Lahore"
    /\ DocsOf("Lahore") = {} /\ DocsOf("Karachi") # {}
    /\ shown = {"warning"}

\* A step of a run: neither the collection nor the clock moves.
RunStep == store' = store /\ now' = now

\* C8: a run with the button pressed shows the collection's latest batch of
\* the city and caches it anew; a run without it shows the cached result
\* while that is less than 60 s old, and otherwise queries the collection.
C8_Cache ==
    [][RunStep =>
        LET c == city'
            young == cache[c].stored_at >= 0 /\ now - cache[c].stored_at < 60
            got == [base_time |-> base_time', rows |-> rows']
            latest == load_latest_forecast(store, c)
        IN  /\ load_obs'.refresh =>
                  (got = latest /\ cache'[c] = [stored_at |-> now, value |-> latest])
            /\ (~load_obs'.refresh /\ young) =>
                  (got = cache[c].value /\ cache' = cache)
            /\ (~load_obs'.refresh /\ ~young) =>
                  (got = latest /\ cache'[c] = [stored_at |-> now, value |-> latest])
    ]_vars

C8_Witness ==
    /\ load_obs.refresh
    /\ load_obs.entry = "live" /\ load_obs.stale
    /\ cache[city].stored_at = now
    /\ rows # <<>>
    /\ rows = load_latest_forecast(store, city).rows

\* C9: the worst metric holds the largest predicted_aqi_us of the batch
\* with the horizon and category of the row of smallest horizon that has it.
C9_Worst ==
    Rendered =>
        \E i \in 1..Len(rows) :
            /\ worst = [value |-> rows[i].predicted_aqi_us,
                        horizon_hours |-> rows[i].horizon_hours,
                        category |-> rows[i].category]
            /\ \A j \in 1..Len(rows) :
                  /\ rows[j].predicted_aqi_us <= rows[i].predicted_aqi_us
                  /\ rows[j].predicted_aqi_us = rows[i].predicted_aqi_us
                        => rows[i].horizon_hours <= rows[j].horizon_hours

C9_Witness ==
    /\ Rendered
    /\ \E i, j \in 1..Len(rows) :
          /\ i < j
          /\ rows[i].predicted_aqi_us = worst.value
          /\ rows[j].predicted_aqi_us = worst.value
          /\ worst.horizon_hours = rows[i].horizon_hours

====
